---- MODULE Spec2Model ----
(***************************************************************************)
(* Trapezoid soil-moisture workflows of gee_irrigation_monitoring:         *)
(*   OPTRAM  (scripts/soil_moisture_OPTRAM.js, Sentinel-2, STR vs NDVI)    *)
(*   TOTRAM  (unnamed/part_002, Landsat 8, LST vs NDVI)                    *)
(* A run is one execution of one of the two scripts over an input          *)
(* collection.  Band values are exact rationals n/d (d > 0, lowest terms). *)
(***************************************************************************)
EXTENDS Integers, Sequences, FiniteSets, TLC

VARIABLES family, coll, pc, proc, imgMedian, k, observed, acc, corners,
          resolved, deltas, outMedian, series, smMean, smJuly

vars == <<family, coll, pc, proc, imgMedian, k, observed, acc, corners,
          resolved, deltas, outMedian, series, smMean, smJuly>>

\* ------------------------------------------------------------------ bounds
\* Largest number of Scenes in the input collection (0 = empty collection).
MaxScenes == 2

\* The fixed grid of the area of interest.
Pixels == {"p1", "p2"}

\* ------------------------------------------------------- exact arithmetic
Abs(x) == IF x < 0 THEN -x ELSE x

RECURSIVE GCD(_, _)
GCD(a, b) == IF b = 0 THEN a ELSE GCD(b, a % b)

\* n/d in lowest terms with a positive denominator (d # 0).
Rat(n, d) ==
  LET g == GCD(Abs(n), Abs(d))
      s == IF d < 0 THEN -1 ELSE 1
  IN  [n |-> s * (n \div g), d |-> Abs(d) \div g]

Zero == Rat(0, 1)
One == Rat(1, 1)
Hundred == Rat(100, 1)

RatNeg(a) == [n |-> -a.n, d |-> a.d]

RatAdd(a, b) ==
  LET g == GCD(a.d, b.d)
  IN  Rat(a.n * (b.d \div g) + b.n * (a.d \div g), (a.d \div g) * b.d)

RatSub(a, b) == RatAdd(a, RatNeg(b))

\* Cross-cancelling product: the factors are reduced before multiplying.
RatMul(a, b) ==
  LET g1 == GCD(Abs(a.n), b.d)
      g2 == GCD(Abs(b.n), a.d)
  IN  IF a.n = 0 \/ b.n = 0 THEN Zero
      ELSE [n |-> (a.n \div g1) * (b.n \div g2), d |-> (a.d \div g2) * (b.d \div g1)]

RatInv(a) == IF a.n < 0 THEN [n |-> -a.d, d |-> -a.n] ELSE [n |-> a.d, d |-> a.n]

\* The '/' of an Earth Engine expression: a division by zero yields 0 and
\* leaves the pixel's mask alone (nothing in either script masks it).
RatDiv(a, b) == IF b.n = 0 THEN Zero ELSE RatMul(a, RatInv(b))

RatLt(a, b) == RatSub(a, b).n < 0
RatLeq(a, b) == RatSub(a, b).n <= 0
RatMax(a, b) == IF RatLt(a, b) THEN b ELSE a
RatMin(a, b) == IF RatLt(b, a) THEN b ELSE a

\* ------------------------------------------------------------- band values
\* One pixel of one band: m is the validity mask, v the value.
Band(v) == [m |-> TRUE, v |-> v]
Masked == [m |-> FALSE, v |-> Zero]

\* A scalar on the server: ok = FALSE is null (a reduction over no valid
\* pixel) or the error a computation on null raises.
Num(v) == [ok |-> TRUE, v |-> v]
Null == [ok |-> FALSE, v |-> Zero]

\* ------------------------------------------------------------------ inputs
Raw(red, nir, src) == [m |-> TRUE, red |-> red, nir |-> nir, src |-> src]
RawMasked == [m |-> FALSE, red |-> 0, nir |-> 0, src |-> 0]

\* Digital numbers (B4, B8, B12) of the Sentinel-2 pixels a Scene may hold.
S2Kinds(p) ==
  IF p = "p1"
  THEN {Raw(1000, 9000, 2000), Raw(4250, 5750, 5000), Raw(3000, 3000, 1000)}
  ELSE {Raw(1000, 9000, 5000), Raw(4250, 5750, 2500), Raw(4250, 5750, 15000),
        RawMasked}

\* Digital numbers (SR_B4, SR_B5, ST_B10) of the Landsat 8 pixels.
L8Kinds(p) ==
  IF p = "p1"
  THEN {Raw(10000, 20000, 40000), Raw(20000, 20000, 50000),
        Raw(20000, 30000, 30000)}
  ELSE {Raw(10000, 20000, 50000), Raw(30000, 40000, 60000),
        Raw(10000, 20000, 60000), RawMasked}

Kinds(f, p) == IF f = "OPTRAM" THEN S2Kinds(p) ELSE L8Kinds(p)

\* system:time_start of the i-th Scene, as yyyymmdd.
TimeOf(i) == IF i % 2 = 1 THEN 20220710 + i ELSE 20230110 + i

Scenes(f) == {s \in [Pixels -> UNION {Kinds(f, p) : p \in Pixels}] :
                \A p \in Pixels : s[p] \in Kinds(f, p)}

Collections(f) == UNION {[1..n -> Scenes(f)] : n \in 0..MaxScenes}

Idx == DOMAIN coll

\* ------------------------------------------------------------ index engine
\* ee.Image.normalizedDifference([a, b]) = (a - b) / (a + b); a pixel with a
\* masked or negative input is masked.
NormalizedDifference(a, b) ==
  IF ~a.m \/ ~b.m \/ a.v.n < 0 \/ b.v.n < 0 THEN Masked
  ELSE Band(RatDiv(RatSub(a.v, b.v), RatAdd(a.v, b.v)))

\* '((1 - SWIR) ** 2) / (2 * SWIR)'
STRExpr(swir) ==
  IF ~swir.m THEN Masked
  ELSE Band(RatDiv(RatMul(RatSub(One, swir.v), RatSub(One, swir.v)),
                   RatMul(Rat(2, 1), swir.v)))

\* img.multiply(0.0001)
S2Scale(m, dn) == IF m THEN Band(RatMul(Rat(dn, 1), Rat(1, 10000))) ELSE Masked

\* img.select('SR_B.*').multiply(0.0000275).add(-0.2)
L8Scale(m, dn) ==
  IF m THEN Band(RatAdd(RatMul(Rat(dn, 1), Rat(275, 10000000)), Rat(-2, 10)))
  ELSE Masked

\* img.select('ST_B10').multiply(0.00341802).add(149)
LSTScale(m, dn) ==
  IF m THEN Band(RatAdd(RatMul(Rat(dn, 1), Rat(341802, 100000000)), Rat(149, 1)))
  ELSE Masked

\* The function mapped over S2 to build S2_proc, on one pixel.
S2_proc(raw) ==
  [NDVI |-> NormalizedDifference(S2Scale(raw.m, raw.nir), S2Scale(raw.m, raw.red)),
   SRC  |-> STRExpr(S2Scale(raw.m, raw.src)),
   SWIR |-> S2Scale(raw.m, raw.src)]

\* The function mapped over landsat to build parameters, on one pixel.
parameters(raw) ==
  [NDVI |-> NormalizedDifference(L8Scale(raw.m, raw.nir), L8Scale(raw.m, raw.red)),
   SRC  |-> LSTScale(raw.m, raw.src),
   SWIR |-> Masked]

\* Properties every Scene of the input carries (img.propertyNames()).
SceneProps(i) == {<<"system:index", IF i % 2 = 1 THEN "odd" ELSE "even">>}

Indexed(f, c) ==
  [i \in DOMAIN c |->
     [time  |-> TimeOf(i),
      props |-> SceneProps(i),
      pix   |-> [p \in Pixels |->
                   IF f = "OPTRAM" THEN S2_proc(c[i][p]) ELSE parameters(c[i][p])]]]

\* ---------------------------------------------------------------- median
RECURSIVE Insert(_, _)
Insert(x, s) ==
  IF s = <<>> THEN <<x>>
  ELSE IF RatLeq(x, Head(s)) THEN <<x>> \o s
  ELSE <<Head(s)>> \o Insert(x, Tail(s))

RECURSIVE SortRat(_)
SortRat(s) == IF s = <<>> THEN <<>> ELSE Insert(Head(s), SortRat(Tail(s)))

\* The valid values of band b at pixel p, in collection order.
RECURSIVE ValidValues(_, _, _, _)
ValidValues(pr, b, p, i) ==
  IF i > Len(pr) THEN <<>>
  ELSE (IF pr[i].pix[p][b].m THEN <<pr[i].pix[p][b].v>> ELSE <<>>)
       \o ValidValues(pr, b, p, i + 1)

\* ee.Reducer.median over the unmasked inputs of one pixel.
MedianOf(s) ==
  LET t == SortRat(s)
      n == Len(t)
  IN  IF n = 0 THEN Masked
      ELSE IF n % 2 = 1 THEN Band(t[(n + 1) \div 2])
      ELSE Band(RatMul(RatAdd(t[n \div 2], t[n \div 2 + 1]), Rat(1, 2)))

\* ImageCollection.mean over the unmasked inputs of one pixel.
RECURSIVE SumRat(_)
SumRat(s) == IF s = <<>> THEN Zero ELSE RatAdd(Head(s), SumRat(Tail(s)))

MeanOf(s) == IF s = <<>> THEN Masked ELSE Band(RatMul(SumRat(s), Rat(1, Len(s))))

\* ------------------------------------------------------ corner estimation
CornerOrder == <<"vw", "vd", "iw", "id">>

\* Vegetation class whose mask a corner is reduced under.
ClassOf(c) == IF c \in {"vw", "vd"} THEN "full" ELSE "bare"

\* The reducer of a corner: .max()/Reducer.max() or .min()/Reducer.min().
ExtremeOf(f, c) ==
  IF f = "OPTRAM" THEN (IF c \in {"vw", "iw"} THEN "max" ELSE "min")
  ELSE (IF c \in {"vw", "iw"} THEN "min" ELSE "max")

\* The boolean image the script builds from NDVI for a vegetation class.
ClassMask(f, cls, ndvi) ==
  IF ~ndvi.m THEN FALSE
  ELSE IF f = "OPTRAM"
       THEN (IF cls = "full" THEN RatLeq(Rat(6, 10), ndvi.v)
             ELSE RatLeq(Rat(1, 10), ndvi.v) /\ RatLeq(ndvi.v, Rat(2, 10)))
       ELSE (IF cls = "full" THEN RatLt(Rat(3, 10), ndvi.v)
             ELSE RatLeq(Zero, ndvi.v) /\ RatLt(ndvi.v, Rat(2, 10)))

\* Mutant of UpdateMask: the vegetation-class mask is not applied.
UpdateMaskNone(f, cls, px) == px.SRC

\* image.select(source).updateMask(mask), on one pixel.
UpdateMask(f, cls, px) ==
  IF px.SRC.m /\ ClassMask(f, cls, px.NDVI) THEN px.SRC ELSE Masked

\* One step of ImageCollection.max()/.min(): a masked input is skipped.
Combine(ext, a, b) ==
  IF ~a.m THEN b
  ELSE IF ~b.m THEN a
  ELSE Band(IF ext = "max" THEN RatMax(a.v, b.v) ELSE RatMin(a.v, b.v))

\* reduceRegion(Reducer.max()/min()) over the grid, then .values().get(0).
RECURSIVE ReduceSet(_, _, _)
ReduceSet(ext, img, ps) ==
  IF ps = {} THEN Masked
  ELSE LET p == CHOOSE q \in ps : TRUE
       IN  Combine(ext, img[p], ReduceSet(ext, img, ps \ {p}))

ReduceRegion(ext, img) ==
  LET r == ReduceSet(ext, img, Pixels)
  IN  IF r.m THEN Num(r.v) ELSE Null

\* ee.Number.subtract; a null operand is an error.
Subtract(a, b) == IF a.ok /\ b.ok THEN Num(RatSub(a.v, b.v)) ELSE Null

\* Mutant of Deltas: the wet and dry corners are mixed up.
DeltasWetDry(f, cs) ==
  IF f = "OPTRAM"
  THEN [sd |-> Subtract(cs["vw"], cs["id"]), sw |-> Subtract(cs["vd"], cs["iw"])]
  ELSE [sd |-> Subtract(cs["id"], cs["vw"]), sw |-> Subtract(cs["iw"], cs["vd"])]

\* The two deltas as each script derives them from the corners.
Deltas(f, cs) ==
  IF f = "OPTRAM"
  THEN [sd |-> Subtract(cs["vd"], cs["id"]), sw |-> Subtract(cs["vw"], cs["iw"])]
  ELSE [sd |-> Subtract(cs["id"], cs["vd"]), sw |-> Subtract(cs["iw"], cs["vw"])]

\* ------------------------------------------------------------------ state
NoImage == [state |-> "none", pix |-> [p \in Pixels |-> Masked],
            props |-> {}, args |-> [id |-> Null, iw |-> Null, sd |-> Null, sw |-> Null]]

NoPix == [p \in Pixels |-> [NDVI |-> Masked, SRC |-> Masked, SWIR |-> Masked]]

Init ==
  /\ family \in {"OPTRAM", "TOTRAM"}
  /\ coll \in Collections(family)
  /\ pc = "index"
  /\ proc = <<>>
  /\ imgMedian = NoPix
  /\ k = 1
  /\ observed = [c \in {"vw", "vd", "iw", "id"} |-> {}]
  /\ acc = [p \in Pixels |-> Masked]
  /\ corners = [c \in {"vw", "vd", "iw", "id"} |-> Null]
  /\ resolved = {}
  /\ deltas = [sd |-> Null, sw |-> Null]
  /\ outMedian = NoImage
  /\ series = [i \in Idx |-> NoImage]
  /\ smMean = NoImage
  /\ smJuly = NoImage

\* S2.map(...) / landsat.map(...): the derived bands of every Scene.
Index ==
  /\ pc = "index"
  /\ proc' = Indexed(family, coll)
  /\ pc' = IF family = "OPTRAM" THEN "median" ELSE "reduce"
  /\ UNCHANGED <<family, coll, imgMedian, k, observed, acc, corners, resolved,
                 deltas, outMedian, series, smMean, smJuly>>

\* imgMedian = S2_proc.median()
Median ==
  /\ pc = "median"
  /\ imgMedian' = [p \in Pixels |->
                     [NDVI |-> MedianOf(ValidValues(proc, "NDVI", p, 1)),
                      SRC  |-> MedianOf(ValidValues(proc, "SRC", p, 1)),
                      SWIR |-> MedianOf(ValidValues(proc, "SWIR", p, 1))]]
  /\ pc' = "reduce"
  /\ UNCHANGED <<family, coll, proc, k, observed, acc, corners, resolved,
                 deltas, outMedian, series, smMean, smJuly>>

\* The collection reduction of the current corner takes in one more Scene.
\* The four reductions are independent of one another; they are taken in
\* the order the script states them, each over the Scenes in any order.
Observe(i) ==
  /\ pc = "reduce"
  /\ i \in Idx \ observed[CornerOrder[k]]
  /\ LET c == CornerOrder[k]
     IN  acc' = [p \in Pixels |->
                   Combine(ExtremeOf(family, c), acc[p],
                           UpdateMask(family, ClassOf(c), proc[i].pix[p]))]
  /\ observed' = [observed EXCEPT ![CornerOrder[k]] = @ \cup {i}]
  /\ UNCHANGED <<family, coll, pc, proc, imgMedian, k, corners, resolved,
                 deltas, outMedian, series, smMean, smJuly>>

\* Mutant of MayResolve: the reduction resolves on a partial collection.
MayResolveEarly == TRUE

\* Whether the reduction of the current corner may resolve.
MayResolve == observed[CornerOrder[k]] = Idx

\* The region reduction of the current corner resolves to a scalar or null.
Resolve ==
  /\ pc = "reduce"
  /\ MayResolve
  /\ LET c == CornerOrder[k]
     IN  /\ corners' = [corners EXCEPT ![c] = ReduceRegion(ExtremeOf(family, c), acc)]
         /\ resolved' = resolved \cup {c}
  /\ acc' = [p \in Pixels |-> Masked]
  /\ IF k = Len(CornerOrder)
     THEN pc' = "derive" /\ k' = k
     ELSE pc' = pc /\ k' = k + 1
  /\ UNCHANGED <<family, coll, proc, imgMedian, observed, deltas, outMedian,
                 series, smMean, smJuly>>

\* sd, sw from the four corners.
Derive ==
  /\ pc = "derive"
  /\ deltas' = Deltas(family, corners)
  /\ pc' = IF family = "OPTRAM" THEN "evalMedian" ELSE "series"
  /\ UNCHANGED <<family, coll, proc, imgMedian, k, observed, acc, corners,
                 resolved, outMedian, series, smMean, smJuly>>

\* ------------------------------------------------------------- evaluation
\* Mutant of Params: the corners and deltas are recomputed from the image
\* under evaluation.
ParamsPerScene(pix) ==
  LET cs == [c \in {"vw", "vd", "iw", "id"} |->
               ReduceRegion(ExtremeOf(family, c),
                            [p \in Pixels |-> UpdateMask(family, ClassOf(c), pix[p])])]
  IN  [id |-> cs["id"], iw |-> cs["iw"],
       sd |-> Deltas(family, cs).sd, sw |-> Deltas(family, cs).sw]

\* The dictionary of scalars bound into the expression evaluated on the
\* image with pixels pix: the script-level variables id, iw, sd, sw,
\* whatever the image.
Params(pix) ==
  [id |-> corners["id"], iw |-> corners["iw"], sd |-> deltas.sd, sw |-> deltas.sw]

\* Mutant of Quotient: the NDVI terms of the two edges are left out.
QuotientNoSlope(a, px) ==
  RatDiv(RatSub(a.id.v, px.SRC.v), RatSub(a.id.v, a.iw.v))

\* '(id + sd * NDVI - SRC) / ((id - iw) + (sd - sw) * NDVI)' on one pixel.
Quotient(a, px) ==
  RatDiv(RatSub(RatAdd(a.id.v, RatMul(a.sd.v, px.NDVI.v)), px.SRC.v),
         RatAdd(RatSub(a.id.v, a.iw.v),
                RatMul(RatSub(a.sd.v, a.sw.v), px.NDVI.v)))

\* The model expression of each script on one pixel: OPTRAM multiplies the
\* quotient by 100.  The output is masked where an input band is.
Evaluate(f, a, px) ==
  IF ~px.NDVI.m \/ ~px.SRC.m THEN Masked
  ELSE Band(IF f = "OPTRAM" THEN RatMul(Quotient(a, px), Hundred)
            ELSE Quotient(a, px))

ArgsOk(a) == a.id.ok /\ a.iw.ok /\ a.sd.ok /\ a.sw.ok

\* image.expression(...).rename('soil_moisture'); a null or failed scalar
\* makes the whole image an error.
Expression(f, a, pix) ==
  IF ArgsOk(a)
  THEN [state |-> "image", pix |-> [p \in Pixels |-> Evaluate(f, a, pix[p])],
        props |-> {}, args |-> a]
  ELSE [state |-> "error", pix |-> [p \in Pixels |-> Masked],
        props |-> {}, args |-> a]

\* element.set(dictionary): later values override earlier ones.
SetProps(ps, new) ==
  {kv \in ps : \A nv \in new : nv[1] # kv[1]} \cup new

\* OPTRAM_median.set({...})
MedianProps ==
  {<<"model", "OPTRAM">>, <<"model_ref", "Sadeghi et al. (adapted).">>,
   <<"units", "%">>,
   <<"notes", "Relative surface soil moisture estimated by OPTRAM from Sentinel-2 STR & NDVI">>}

\* eq.copyProperties(image, image.propertyNames()).set({...})
SeriesProps(f, img) ==
  SetProps(img.props,
           IF f = "OPTRAM" THEN {<<"model", "OPTRAM">>, <<"units", "%">>}
           ELSE {<<"model", "TOTRAM">>, <<"units", "relative">>})

\* sm_series.mean().rename('sm_mean').set({...})
MeanProps ==
  {<<"model", "TOTRAM">>, <<"units", "relative">>,
   <<"notes", "Thermal-optical relative soil moisture (TOTRAM)">>}

\* OPTRAM_median = imgMedian.expression(...).set(...)
EvalMedian ==
  /\ pc = "evalMedian"
  /\ outMedian' = [Expression(family, Params(imgMedian), imgMedian)
                     EXCEPT !.props = MedianProps]
  /\ pc' = "series"
  /\ UNCHANGED <<family, coll, proc, imgMedian, k, observed, acc, corners,
                 resolved, deltas, series, smMean, smJuly>>

\* The function mapped over coll / parameters, on the i-th Scene.
EvalScene(i) ==
  /\ pc = "series"
  /\ i \in Idx
  /\ series[i].state = "none"
  /\ series' = [series EXCEPT ![i] =
                  [Expression(family, Params(proc[i].pix), proc[i].pix)
                     EXCEPT !.props = SeriesProps(family, proc[i])]]
  /\ UNCHANGED <<family, coll, pc, proc, imgMedian, k, observed, acc, corners,
                 resolved, deltas, outMedian, smMean, smJuly>>

\* Every Scene of the series has been evaluated.
SeriesDone ==
  /\ pc = "series"
  /\ \A i \in Idx : series[i].state # "none"
  /\ pc' = IF family = "OPTRAM" THEN "done" ELSE "mean"
  /\ UNCHANGED <<family, coll, proc, imgMedian, k, observed, acc, corners,
                 resolved, deltas, outMedian, series, smMean, smJuly>>

\* The soil_moisture values of pixel p over the Scenes of js, in order.
RECURSIVE SeriesValues(_, _, _)
SeriesValues(js, p, i) ==
  IF i > Len(series) THEN <<>>
  ELSE (IF i \in js /\ series[i].pix[p].m THEN <<series[i].pix[p].v>> ELSE <<>>)
       \o SeriesValues(js, p, i + 1)

\* ImageCollection.mean() of the Scenes of js: no property is kept, and the
\* mean of no Scene is an image without bands ("empty").
MeanImage(js) ==
  IF js = {} THEN [NoImage EXCEPT !.state = "empty"]
  ELSE IF \E i \in js : series[i].state = "error"
  THEN [NoImage EXCEPT !.state = "error"]
  ELSE [NoImage EXCEPT !.state = "image",
                       !.pix = [p \in Pixels |-> MeanOf(SeriesValues(js, p, 1))]]

\* sm_series.filterDate('2022-07-01', '2022-07-31')
InJuly(i) == proc[i].time >= 20220701 /\ proc[i].time < 20220731

\* sm_mean = sm_series.mean().rename('sm_mean').set({...})
Mean ==
  /\ pc = "mean"
  /\ smMean' = IF MeanImage(Idx).state = "empty"
                THEN [NoImage EXCEPT !.state = "error"]  \* rename: no band
                ELSE [MeanImage(Idx) EXCEPT !.props = MeanProps]
  /\ pc' = "july"
  /\ UNCHANGED <<family, coll, proc, imgMedian, k, observed, acc, corners,
                 resolved, deltas, outMedian, series, smJuly>>

\* sm_july = sm_series.filterDate(...).mean()
July ==
  /\ pc = "july"
  /\ smJuly' = MeanImage({i \in Idx : InJuly(i)})
  /\ pc' = "done"
  /\ UNCHANGED <<family, coll, proc, imgMedian, k, observed, acc, corners,
                 resolved, deltas, outMedian, series, smMean>>

Next ==
  \/ Index
  \/ Median
  \/ \E i \in Idx : Observe(i)
  \/ Resolve
  \/ Derive
  \/ EvalMedian
  \/ \E i \in Idx : EvalScene(i)
  \/ SeriesDone
  \/ Mean
  \/ July

Spec == Init /\ [][Next]_vars
\* ================================================================= claims
AllCorners == {"vw", "vd", "iw", "id"}

\* sd and sw have been derived.
Derived == pc \in {"evalMedian", "series", "mean", "july", "done"}

\* Calibration produced all four corners and both deltas.
Calibrated ==
  Derived /\ (\A c \in AllCorners : corners[c].ok) /\ deltas.sd.ok /\ deltas.sw.ok

FullScale == IF family = "OPTRAM" THEN Hundred ELSE One

\* Numerator and denominator of the model at a pixel, from the calibrated
\* scalars of the state.
NumAt(px) ==
  RatSub(RatAdd(corners["id"].v, RatMul(deltas.sd.v, px.NDVI.v)), px.SRC.v)

DenAt(px) ==
  RatAdd(RatSub(corners["id"].v, corners["iw"].v),
         RatMul(RatSub(deltas.sd.v, deltas.sw.v), px.NDVI.v))

\* The evaluated images of the run with the pixels each was evaluated on.
Evaluated ==
  (IF outMedian.state = "image" THEN {[out |-> outMedian, pix |-> imgMedian]} ELSE {})
  \cup {[out |-> series[i], pix |-> proc[i].pix] :
          i \in {j \in Idx : series[j].state = "image"}}

\* Every output of the run that has been produced.
Outputs ==
  {o \in {outMedian, smMean, smJuly} \cup {series[i] : i \in Idx} :
     o.state # "none"}

\* C1: wherever the quotient is defined (valid NDVI and source, non-zero
\* denominator), the soil_moisture pixel of the median composite and of
\* every series Scene is valid and equals
\* (id + sd*NDVI - source) / ((id - iw) + (sd - sw)*NDVI), times 100 in
\* OPTRAM and unscaled in TOTRAM.
C1_ModelFormula ==
  \A e \in Evaluated : \A p \in Pixels :
    (e.pix[p].NDVI.m /\ e.pix[p].SRC.m /\ DenAt(e.pix[p]).n # 0)
      => /\ e.out.pix[p].m
         /\ RatMul(e.out.pix[p].v, DenAt(e.pix[p]))
              = RatMul(NumAt(e.pix[p]), FullScale)

\* A finished run with an evaluated image that has a non-zero soil_moisture
\* value at a pixel of non-zero NDVI and non-zero denominator.
C1_Witness ==
  /\ pc = "done"
  /\ \E e \in Evaluated : \E p \in Pixels :
       /\ e.pix[p].NDVI.m /\ e.pix[p].SRC.m
       /\ e.pix[p].NDVI.v.n # 0
       /\ DenAt(e.pix[p]).n # 0
       /\ e.out.pix[p].v.n # 0
       /\ deltas.sd.v.n # 0

\* C2 (as stated): in both families sd = dryBare - dryVeg and
\* sw = wetBare - wetVeg.
C2_BareMinusVeg ==
  Calibrated =>
    /\ deltas.sd.v = RatSub(corners["id"].v, corners["vd"].v)
    /\ deltas.sw.v = RatSub(corners["iw"].v, corners["vw"].v)

\* C2 (amended): TOTRAM derives sd = id - vd and sw = iw - vw (bare soil
\* minus vegetation); OPTRAM derives sd_opt = vd_opt - id_opt and
\* sw_opt = vw_opt - iw_opt (vegetation minus bare soil).
C2_DeltasPerFamily ==
  Calibrated =>
    IF family = "TOTRAM"
    THEN /\ RatAdd(deltas.sd.v, corners["vd"].v) = corners["id"].v
         /\ RatAdd(deltas.sw.v, corners["vw"].v) = corners["iw"].v
    ELSE /\ RatAdd(deltas.sd.v, corners["id"].v) = corners["vd"].v
         /\ RatAdd(deltas.sw.v, corners["iw"].v) = corners["vw"].v

\* Both families calibrated with distinct dry and distinct wet corners.
C2_Witness ==
  /\ Calibrated
  /\ corners["id"].v # corners["vd"].v
  /\ corners["iw"].v # corners["vw"].v
  /\ corners["vw"].v # corners["vd"].v

\* C3: a resolved corner and the derived deltas never change again, and
\* every evaluation (median composite, each series Scene) is made with
\* exactly the calibrated id, iw, sd, sw.
C3_ParametersFixed ==
  [][ /\ \A c \in resolved : corners'[c] = corners[c]
      /\ Derived => deltas' = deltas
      /\ \A e \in Evaluated' :
           e.out.args = [id |-> corners["id"], iw |-> corners["iw"],
                         sd |-> deltas.sd, sw |-> deltas.sw]' ]_vars

\* A finished run that evaluated two Scenes which differ from one another.
C3_Witness ==
  /\ pc = "done"
  /\ Calibrated
  /\ \E i, j \in Idx : /\ series[i].state = "image" /\ series[j].state = "image"
                       /\ proc[i].pix # proc[j].pix

\* C4: an evaluation exists only once all four corner reductions have
\* resolved, and a resolved reduction has taken in every Scene.
C4_CalibrationBarrier ==
  /\ \A c \in resolved : observed[c] = Idx
  /\ Outputs # {} => resolved = AllCorners
  /\ Derived => resolved = AllCorners

\* An evaluated series Scene of a collection of at least two Scenes.
C4_Witness ==
  /\ Cardinality(Idx) >= 2
  /\ \E i \in Idx : series[i].state = "image"

\* The values of the source band a corner pools: every valid pixel of every
\* Scene whose NDVI is in the corner's vegetation class.
InClass(cls, ndvi) ==
  IF family = "OPTRAM"
  THEN (IF cls = "full" THEN 10 * ndvi.n >= 6 * ndvi.d
        ELSE 10 * ndvi.n >= ndvi.d /\ 10 * ndvi.n <= 2 * ndvi.d)
  ELSE (IF cls = "full" THEN 10 * ndvi.n > 3 * ndvi.d
        ELSE ndvi.n >= 0 /\ 10 * ndvi.n < 2 * ndvi.d)

Pool(c) ==
  {proc[i].pix[p].SRC.v :
     <<i, p>> \in {ip \in Idx \X Pixels :
                     /\ proc[ip[1]].pix[ip[2]].SRC.m
                     /\ proc[ip[1]].pix[ip[2]].NDVI.m
                     /\ InClass(ClassOf(c), proc[ip[1]].pix[ip[2]].NDVI.v)}}

WantsMax(c) == (family = "OPTRAM") = (c \in {"vw", "iw"})

\* C5: a resolved corner is the single global extreme of its pool, whatever
\* the order in which the Scenes were taken in; it is null on an empty pool.
C5_PooledExtreme ==
  \A c \in resolved :
    IF Pool(c) = {} THEN ~corners[c].ok
    ELSE /\ corners[c].ok
         /\ corners[c].v \in Pool(c)
         /\ \A v \in Pool(c) :
              IF WantsMax(c) THEN RatLeq(v, corners[c].v) ELSE RatLeq(corners[c].v, v)

\* All corners resolved over two Scenes, the bare-soil pool holds two
\* values, and a pixel outside the bare-soil class is more extreme than the
\* bare-soil corner it is kept out of.
C5_Witness ==
  /\ resolved = AllCorners
  /\ Cardinality(Idx) >= 2
  /\ Cardinality(Pool("iw")) >= 2
  /\ \E i \in Idx : \E p \in Pixels :
       /\ proc[i].pix[p].SRC.m
       /\ proc[i].pix[p].SRC.v \notin Pool("iw")
       /\ IF WantsMax("iw") THEN RatLt(corners["iw"].v, proc[i].pix[p].SRC.v)
          ELSE RatLt(proc[i].pix[p].SRC.v, corners["iw"].v)

\* C6 (as stated): when some corner reduction finds no valid pixel (empty
\* collection or empty mask), no delta is produced and no evaluation of the
\* composite or of any Scene is attempted.
C6_AbortsBeforeEvaluation ==
  (resolved = AllCorners /\ \E c \in AllCorners : ~corners[c].ok)
    => /\ ~deltas.sd.ok /\ ~deltas.sw.ok
       /\ Outputs = {}

\* C7 (as stated): a pixel whose denominator is zero is masked in the
\* median composite and in every series Scene.
C7_ZeroDenominatorMasked ==
  \A e \in Evaluated : \A p \in Pixels :
    (e.pix[p].NDVI.m /\ e.pix[p].SRC.m /\ DenAt(e.pix[p]).n = 0)
      => ~e.out.pix[p].m

Keys(o) == {kv[1] : kv \in o.props}

\* C8 (as stated): every output carries model, model_ref, units and notes,
\* and units is '%' exactly when the value was scaled by 100.
C8_Provenance ==
  \A o \in Outputs :
    o.state = "image" =>
      /\ {"model", "model_ref", "units", "notes"} \subseteq Keys(o)
      /\ (<<"units", "%">> \in o.props) = (family = "OPTRAM")

\* C9 (as stated): STR is ((1 - swir)^2) / (2*swir) for 0 < swir < 1 and is
\* masked for every swir outside (0, 1).
C9_STRDomain ==
  (family = "OPTRAM" /\ pc # "index") =>
    \A i \in Idx : \A p \in Pixels :
      LET px == proc[i].pix[p]
      IN  px.SWIR.m =>
            IF px.SWIR.v.n > 0 /\ px.SWIR.v.n < px.SWIR.v.d
            THEN /\ px.SRC.m
                 /\ RatMul(px.SRC.v, RatMul(Rat(2, 1), px.SWIR.v))
                      = RatMul(RatSub(One, px.SWIR.v), RatSub(One, px.SWIR.v))
            ELSE ~px.SRC.m

\* The model value at a pixel of the given NDVI and source value.
ModelAt(ndvi, src) ==
  Evaluate(family,
           [id |-> corners["id"], iw |-> corners["iw"],
            sd |-> deltas.sd, sw |-> deltas.sw],
           [NDVI |-> Band(ndvi), SRC |-> Band(src), SWIR |-> Masked]).v

DenOf(ndvi) == DenAt([NDVI |-> Band(ndvi), SRC |-> Band(Zero)])

\* C10 (as stated): in both scripts the model is 0 at (NDVI 0, id) and at
\* (NDVI 1, vd), and full scale at (NDVI 0, iw) and at (NDVI 1, vw),
\* wherever the denominator is not zero.
C10_ThroughCorners ==
  Calibrated =>
    /\ DenOf(Zero).n # 0 =>
         /\ ModelAt(Zero, corners["id"].v) = Zero
         /\ ModelAt(Zero, corners["iw"].v) = FullScale
    /\ DenOf(One).n # 0 =>
         /\ ModelAt(One, corners["vd"].v) = Zero
         /\ ModelAt(One, corners["vw"].v) = FullScale
====
